---- MODULE Spec2Model ----
(***************************************************************************)
(* Student / Teacher record service (src/main.py): ten FastAPI handlers     *)
(* over two SQLAlchemy tables.                                              *)
(*                                                                         *)
(* Spec      one request at a time, each handler one atomic action         *)
(*           (dependency get_db, validation, the handler body, db.close).  *)
(* ConcSpec  the student handlers cut at their store round trips           *)
(*           (db.get / commit / refresh), several requests in flight,      *)
(*           store faults on a round trip.                                 *)
(*                                                                         *)
(* Request bodies are JSON: a body is a function from the keys it holds to *)
(* JSON tokens (the literal text of the value).  Rows hold Python values.  *)
(***************************************************************************)
EXTENDS Integers, FiniteSets, Sequences, TLC

\* Rows created in one behaviour, both tables together.
MaxCreates == 2

Entities == {"Student", "Teacher"}

\* Column(...) declarations other than the primary key.
Fields(e) == IF e = "Student" THEN {"name", "age", "grade"}
                              ELSE {"name", "subject", "experience"}

\* Columns / schema attributes declared Integer / int.
IntFields == {"age", "experience"}

\* JSON tokens.
StrTokens == {"\"A\"", "\"\""}
IntTokens == {"30", "31"}
JNull == "null"
\* A JSON array: no schema attribute accepts it.
JBad == "[]"

\* pydantic's check of one attribute annotated str / int, on the tokens above
\* (tokens that pydantic would convert, a digit string for an int, are not sent).
Accepts(f, tok) == IF f \in IntFields THEN tok \in IntTokens ELSE tok \in StrTokens

\* The Python value pydantic builds from an accepted token.
Parse(f, tok) == IF f \in IntFields
                   THEN (IF tok = "30" THEN 30 ELSE 31)
                   ELSE (IF tok = "\"A\"" THEN "A" ELSE "")

\* The JSON token of a Python value in a response (StudentOut / TeacherOut).
Dump(f, v) == IF f \in IntFields
                THEN (IF v = 30 THEN "30" ELSE "31")
                ELSE (IF v = "A" THEN "\"A\"" ELSE "\"\"")

\* StudentCreate / TeacherCreate: every attribute required, extra keys ignored.
ValidCreate(e, body) ==
    /\ Fields(e) \subseteq DOMAIN body
    /\ \A f \in Fields(e) : Accepts(f, body[f])

\* StudentUpdate / TeacherUpdate: every attribute Optional with default None.
ValidUpdate(e, body) ==
    \A f \in DOMAIN body \cap Fields(e) : body[f] = JNull \/ Accepts(f, body[f])

\* Variant: student.dict() without exclude_unset, so that every attribute the
\* body leaves out arrives as None.
DictAll(e, body) ==
    LET keys == DOMAIN body \cap Fields(e)
        some == {f \in keys : body[f] # JNull}
    IN  [vals |-> [f \in some |-> Parse(f, body[f])], none |-> Fields(e) \ some]

\* student.dict(exclude_unset=True): the supplied attributes; vals holds the
\* ones with a value, none the ones given as None.
DictUnset(e, body) ==
    LET keys == DOMAIN body \cap Fields(e)
        some == {f \in keys : body[f] # JNull}
    IN  [vals |-> [f \in some |-> Parse(f, body[f])], none |-> keys \ some]

\* response_model serialisation of one ORM object.
Out(e, row) == [f \in Fields(e) \cup {"id"} |->
                   IF f = "id" THEN row.id ELSE Dump(f, row[f])]

\* Variant: the second string column filled from name.
NewRowFromName(e, id, body) ==
    [f \in Fields(e) \cup {"id"} |->
        IF f = "id" THEN id
        ELSE IF f \in IntFields THEN Parse(f, body[f])
        ELSE Parse("name", body["name"])]

\* Student(**student.dict()) with the primary key the store assigns.
NewRow(e, id, body) == [f \in Fields(e) \cup {"id"} |->
                           IF f = "id" THEN id ELSE Parse(f, body[f])]

\* for key, value in ...: setattr(existing, key, value), the attributes set to
\* a value (those set to None are DictUnset(...).none).
SetAttrs(e, existing, d) == [f \in Fields(e) \cup {"id"} |->
                               IF f \in DOMAIN d.vals THEN d.vals[f] ELSE existing[f]]

\* Variant: the columns declared nullable.
NotNullOff(d) == TRUE

\* nullable=False: the flush of a row with an attribute None raises
\* IntegrityError.
NotNullOk(d) == d.none = {}

(***************************************************************************)
(* State                                                                   *)
(***************************************************************************)
VARIABLES
    tables,     \* tables[e]: primary key -> committed row of students / teachers
    nextId,     \* nextId[e]: the next value of the table's id sequence
    resp,       \* <<>> while no response is out, else <<the response just sent>>
    known,      \* known[e]: id -> entity, as the 201 / 200 responses so far told it
    issued,     \* issued[e]: the ids the 201 responses so far carried
    inflight,   \* ConcSpec: slot -> the request running in it, or Idle
    open        \* ConcSpec: slot -> number of sessions open for it

vars == <<tables, nextId, resp, known, issued, inflight, open>>

\* The empty mapping: an empty table, an empty JSON object, no request body.
Empty == <<>>

Put(t, k, v) == [x \in DOMAIN t \cup {k} |-> IF x = k THEN v ELSE t[x]]
Drop(t, k) == [x \in DOMAIN t \ {k} |-> t[x]]

(***************************************************************************)
(* Requests the model sends                                                *)
(***************************************************************************)
\* Path ids tried: every id a create can have returned.
Ids == 1..MaxCreates

Body1(e) == [f \in Fields(e) |-> IF f \in IntFields THEN "30" ELSE "\"A\""]
Body2(e) == [f \in Fields(e) |-> IF f \in IntFields THEN "31" ELSE "\"\""]

\* Every body with all attributes present and of the declared JSON type.
FullBodies(e) ==
    {b \in [Fields(e) -> StrTokens \cup IntTokens] :
        \A f \in Fields(e) :
            b[f] \in (IF f \in IntFields THEN IntTokens ELSE StrTokens)}

\* Well-typed bodies, bodies with attributes missing, with one attribute null
\* or an array, and with an extra "id" key.
CreateBodies(e) ==
    FullBodies(e)
    \cup {[f \in S |-> Body1(e)[f]] : S \in SUBSET Fields(e)}
    \cup {Put(Body1(e), f, t) : f \in Fields(e), t \in {JNull, JBad}}
    \cup {Put(Body1(e), "id", "7")}

UpdateBodies(e) ==
    {[f \in S |-> b[f]] : b \in {Body1(e), Body2(e)}, S \in SUBSET Fields(e)}
    \cup {Put(Body2(e), f, t) : f \in Fields(e), t \in {JNull, JBad}}
    \cup {Put([f \in S |-> Body2(e)[f]], "id", "7") : S \in {{}, {"name"}}}

\* The request sets, evaluated once.
StudentCreateBodies == CreateBodies("Student")
TeacherCreateBodies == CreateBodies("Teacher")
StudentUpdateBodies == UpdateBodies("Student")
TeacherUpdateBodies == UpdateBodies("Teacher")
CreateInputs(e) == IF e = "Student" THEN StudentCreateBodies ELSE TeacherCreateBodies
UpdateInputs(e) == IF e = "Student" THEN StudentUpdateBodies ELSE TeacherUpdateBodies

Req(op, e, id, body) == [op |-> op, e |-> e, id |-> id, body |-> body]

\* A response: status code, the detail of an error, the entities of the body
\* (a list for the collection route, one entity or none otherwise), and the
\* exception that produced it ("" when the handler returned).
Raised(req, status, detail, exc) ==
    [req |-> req, status |-> status, detail |-> detail, rows |-> <<>>, exc |-> exc]

Response(req, status, detail, rows) ==
    [req |-> req, status |-> status, detail |-> detail, rows |-> rows, exc |-> ""]

\* Variant: the teacher handlers keep the student handlers' detail.
NotFoundCopied(req) == Raised(req, 404, "Student not found", "HTTPException")

\* HTTPException(status_code=404, detail="Student not found")
NotFound(req) ==
    Raised(req, 404, IF req.e = "Student" THEN "Student not found"
                                          ELSE "Teacher not found", "HTTPException")

\* RequestValidationError: the body does not fit the schema.
Unprocessable(req) == Raised(req, 422, "validation error", "RequestValidationError")

\* An exception of the ORM, which nothing catches.
ServerError(req, exc) == Raised(req, 500, "Internal Server Error", exc)

\* What a client knows of the rows after a response.
Learn(k, r) ==
    LET e == r.req.e IN
    IF r.req.op = "POST" /\ r.status = 201
      THEN [k EXCEPT ![e] = Put(k[e], r.rows[1].id, r.rows[1])]
    ELSE IF r.req.op = "PUT" /\ r.status = 200
      THEN [k EXCEPT ![e] = Put(k[e], r.req.id, r.rows[1])]
    ELSE IF r.req.op = "DELETE" /\ r.status = 200
      THEN [k EXCEPT ![e] = Drop(k[e], r.req.id)]
    ELSE k

\* The ids the 201 responses have carried.
Issue(i, r) ==
    IF r.req.op = "POST" /\ r.status = 201
      THEN [i EXCEPT ![r.req.e] = @ \cup {r.rows[1].id}]
      ELSE i

(***************************************************************************)
(* The store                                                               *)
(***************************************************************************)
\* db.get(Student, student_id): the row, or None.
Present(t, e, id) == id \in DOMAIN t[e]

\* Variant: the query cut to its first row.
AllRowsFirst(t, e) ==
    {<<Out(e, t[e][id])>> : id \in DOMAIN t[e]} \cup
    (IF DOMAIN t[e] = {} THEN {<<>>} ELSE {})

\* db.query(Student).all(): every row, in an order the store chooses.
AllRows(t, e) ==
    LET ids == DOMAIN t[e]
        n   == Cardinality(ids)
    IN  {[i \in 1..n |-> Out(e, t[e][o[i]])] :
            o \in {s \in [1..n -> ids] : \A i, j \in 1..n : s[i] = s[j] => i = j}}

\* db.add(new_student); db.commit(): INSERT with the sequence's next value.
Insert(t, e, id, body) == [t EXCEPT ![e] = Put(t[e], id, NewRow(e, id, body))]

\* Variant: a key generator that does not move on.
AdvanceStuck(n, e) == n

\* The sequence behind the primary key: never hands a value out twice.
Advance(n, e) == [n EXCEPT ![e] = n[e] + 1]

\* setattr(...); db.commit(): UPDATE of the dirty row.
Overwrite(t, e, id, d) == [t EXCEPT ![e][id] = SetAttrs(e, t[e][id], d)]

\* Variant: the delete never committed.
RemoveNoCommit(t, e, id) == t

\* db.delete(existing); db.commit(): DELETE of the row.
Remove(t, e, id) == [t EXCEPT ![e] = Drop(t[e], id)]

Created == (nextId["Student"] - 1) + (nextId["Teacher"] - 1)

(***************************************************************************)
(* Handlers, one request at a time                                         *)
(***************************************************************************)
Send(r) ==
    /\ resp' = <<r>>
    /\ known' = Learn(known, r)
    /\ issued' = Issue(issued, r)
    /\ UNCHANGED <<inflight, open>>

ReadAll(e) ==
    /\ resp = <<>>
    /\ \E rows \in AllRows(tables, e) :
        /\ Send(Response(Req("LIST", e, 0, Empty), 200, "", rows))
        /\ UNCHANGED <<tables, nextId>>

ReadOne(e) ==
    /\ resp = <<>>
    /\ \E id \in Ids :
        LET req == Req("GET", e, id, Empty) IN
        /\ IF ~Present(tables, e, id)
             THEN Send(NotFound(req))
             ELSE Send(Response(req, 200, "", <<Out(e, tables[e][id])>>))
        /\ UNCHANGED <<tables, nextId>>

CreateOne(e) ==
    /\ resp = <<>>
    /\ \E body \in CreateInputs(e) :
        LET req == Req("POST", e, 0, body)
            id  == nextId[e]
        IN  IF ~ValidCreate(e, body)
              THEN /\ Send(Unprocessable(req))
                   /\ UNCHANGED <<tables, nextId>>
              ELSE /\ Created < MaxCreates
                   /\ tables' = Insert(tables, e, id, body)
                   /\ nextId' = Advance(nextId, e)
                   /\ Send(Response(req, 201, "", <<Out(e, tables'[e][id])>>))

UpdateOne(e) ==
    /\ resp = <<>>
    /\ \E id \in Ids, body \in UpdateInputs(e) :
        LET req == Req("PUT", e, id, body)
            d   == DictUnset(e, body)
        IN  /\ UNCHANGED nextId
            /\ IF ~ValidUpdate(e, body)
                 THEN Send(Unprocessable(req)) /\ UNCHANGED tables
               ELSE IF ~Present(tables, e, id)
                 THEN Send(NotFound(req)) /\ UNCHANGED tables
               ELSE IF ~NotNullOk(d)
                 THEN Send(ServerError(req, "IntegrityError")) /\ UNCHANGED tables
               ELSE /\ tables' = Overwrite(tables, e, id, d)
                    /\ Send(Response(req, 200, "", <<Out(e, tables'[e][id])>>))

DeleteOne(e) ==
    /\ resp = <<>>
    /\ \E id \in Ids :
        LET req == Req("DELETE", e, id, Empty) IN
        /\ UNCHANGED nextId
        /\ IF ~Present(tables, e, id)
             THEN Send(NotFound(req)) /\ UNCHANGED tables
             ELSE /\ tables' = Remove(tables, e, id)
                  /\ Send(Response(req, 200, "", <<Out(e, tables[e][id])>>))

read_students  == ReadAll("Student")
read_student   == ReadOne("Student")
create_student == CreateOne("Student")
update_student == UpdateOne("Student")
delete_student == DeleteOne("Student")
read_teachers  == ReadAll("Teacher")
read_teacher   == ReadOne("Teacher")
create_teacher == CreateOne("Teacher")
update_teacher == UpdateOne("Teacher")
delete_teacher == DeleteOne("Teacher")

\* The response has gone out; the next request can come in.
Deliver ==
    /\ resp # <<>>
    /\ resp' = <<>>
    /\ UNCHANGED <<tables, nextId, known, issued, inflight, open>>

\* ConcSpec: requests in flight at once, and rows created in one behaviour.
MaxInFlight == 2
MaxConcCreates == 1
Slots == 1..MaxInFlight
Idle == [pc |-> "idle"]

\* startup_event: create_all on an empty database; no request yet.
Init ==
    /\ tables = [e \in Entities |-> Empty]
    /\ nextId = [e \in Entities |-> 1]
    /\ resp = <<>>
    /\ known = [e \in Entities |-> Empty]
    /\ issued = [e \in Entities |-> {}]
    /\ inflight = [s \in Slots |-> Idle]
    /\ open = [s \in Slots |-> 0]

Next ==
    \/ read_students
    \/ read_student
    \/ create_student
    \/ update_student
    \/ delete_student
    \/ read_teachers
    \/ read_teacher
    \/ create_teacher
    \/ update_teacher
    \/ delete_teacher
    \/ Deliver

Spec == Init /\ [][Next]_vars

(***************************************************************************)
(* Handlers cut at their store round trips, several requests in flight     *)
(***************************************************************************)
\* The path id ConcSpec's requests contend for: the first row created.
ConcIds == {1}

\* The requests ConcSpec sends, all on the students routes.
ConcRequests ==
    LET e == "Student" IN
    {Req("LIST", e, 0, Empty)}
    \cup {Req(op, e, id, Empty) : op \in {"GET", "DELETE"}, id \in ConcIds}
    \cup {Req("POST", e, 0, b) : b \in {Body1(e), [f \in {"name"} |-> "\"A\""]}}
    \cup {Req("PUT", e, id, b) :
            id \in ConcIds,
            b \in {[f \in {"age"} |-> "31"], Empty, [f \in {"name"} |-> JNull]}}

\* A request in flight: where its handler stands and the ORM object db.get
\* loaded (<<>> for none).
Running(pc, req, existing) == [pc |-> pc, req |-> req, existing |-> existing]

\* The slots are interchangeable: a request takes the lowest free one.
Free(s) ==
    /\ inflight[s].pc = "idle"
    /\ \A t \in Slots : t < s => inflight[t].pc # "idle"

\* The first store round trip of each handler.
FirstStep(op) ==
    CASE op = "LIST" -> "query"
      [] op = "POST" -> "commit"
      [] OTHER       -> "get"

\* Creates begun and not yet committed or failed.
Creating == Cardinality({s \in Slots : /\ inflight[s].pc = "commit"
                                       /\ inflight[s].req.op = "POST"})

\* Variant: db.close() after the yield, outside any try / finally.
CloseUnlessRaised(n, r) == IF r.exc # "" THEN n ELSE n - 1

\* finally: db.close(), whatever the handler returned or raised.
CloseSession(n, r) == n - 1

\* The handler returns or raises, get_db resumes after its yield and closes
\* the session, and the response r goes out.
Leave(s, r) ==
    /\ inflight' = [inflight EXCEPT ![s] = Idle]
    /\ open' = [open EXCEPT ![s] = CloseSession(@, r)]
    /\ resp' = <<r>>
    /\ issued' = Issue(issued, r)
    /\ known' = Learn(known, r)

\* The handler goes on to its next round trip.
Goto(s, pc, req, existing) ==
    /\ inflight' = [inflight EXCEPT ![s] = Running(pc, req, existing)]
    /\ UNCHANGED <<open, resp, known, issued>>

\* The attributes setattr changed on the loaded object: the UPDATE sets these
\* columns and no other.
Dirty(existing, d) ==
    {f \in DOMAIN d.vals : d.vals[f] # existing[f]} \cup d.none

\* Variant: the flush written as a merge, which inserts the object when the
\* row is gone.
FlushMerge(t, e, id, existing, d) ==
    LET base == IF id \in DOMAIN t[e] THEN t[e][id] ELSE existing
    IN  [t EXCEPT ![e] = Put(t[e], id, SetAttrs(e, base, d))]

\* UPDATE students SET <dirty columns> WHERE id = :id, where it matches.
FlushUpdate(t, e, id, existing, d) ==
    IF id \notin DOMAIN t[e] THEN t
    ELSE [t EXCEPT ![e][id] =
            [f \in Fields(e) \cup {"id"} |->
                IF f \in Dirty(existing, d) \cap DOMAIN d.vals
                  THEN d.vals[f] ELSE t[e][id][f]]]

\* get_db up to its yield (one session opened), then the validation of the
\* body against the schema; a body that fails never enters the handler.
Begin(s) ==
    /\ resp = <<>>
    /\ Free(s)
    /\ \E req \in ConcRequests :
        /\ req.op = "POST" /\ ValidCreate(req.e, req.body) =>
               Created + Creating < MaxConcCreates
        /\ inflight' = [inflight EXCEPT ![s] =
              IF \/ req.op = "POST" /\ ~ValidCreate(req.e, req.body)
                 \/ req.op = "PUT" /\ ~ValidUpdate(req.e, req.body)
                THEN Running("invalid", req, <<>>)
                ELSE Running(FirstStep(req.op), req, <<>>)]
    /\ open' = [open EXCEPT ![s] = @ + 1]
    /\ UNCHANGED <<tables, nextId, resp, known, issued>>

\* RequestValidationError: 422, the handler is not called.
Reject(s) ==
    /\ resp = <<>>
    /\ inflight[s].pc = "invalid"
    /\ Leave(s, Unprocessable(inflight[s].req))
    /\ UNCHANGED <<tables, nextId>>

\* db.query(Student).all()
Query(s) ==
    /\ resp = <<>>
    /\ inflight[s].pc = "query"
    /\ \E rows \in AllRows(tables, inflight[s].req.e) :
           Leave(s, Response(inflight[s].req, 200, "", rows))
    /\ UNCHANGED <<tables, nextId>>

\* db.get(Student, student_id) and the test on its result.
Get(s) ==
    LET req == inflight[s].req IN
    /\ resp = <<>>
    /\ inflight[s].pc = "get"
    /\ IF ~Present(tables, req.e, req.id)
         THEN Leave(s, NotFound(req))
       ELSE IF req.op = "GET"
         THEN Leave(s, Response(req, 200, "", <<Out(req.e, tables[req.e][req.id])>>))
       ELSE Goto(s, "commit", req, <<tables[req.e][req.id]>>)
    /\ UNCHANGED <<tables, nextId>>

\* db.add(new_student); db.commit()
CommitCreate(s) ==
    LET req == inflight[s].req
        id  == nextId[req.e]
    IN  /\ resp = <<>>
        /\ inflight[s].pc = "commit"
        /\ req.op = "POST"
        /\ tables' = Insert(tables, req.e, id, req.body)
        /\ nextId' = Advance(nextId, req.e)
        /\ Goto(s, "refresh", Req("POST", req.e, id, req.body), <<>>)

\* setattr(...); db.commit(): nothing to write, or an UPDATE that must pass
\* NOT NULL (IntegrityError) and have matched its row (StaleDataError).
CommitUpdate(s) ==
    LET req      == inflight[s].req
        existing == inflight[s].existing[1]
        d        == DictUnset(req.e, req.body)
    IN  /\ resp = <<>>
        /\ inflight[s].pc = "commit"
        /\ req.op = "PUT"
        /\ UNCHANGED nextId
        /\ IF Dirty(existing, d) = {}
             THEN /\ Goto(s, "refresh", req, <<>>)
                  /\ UNCHANGED tables
           ELSE IF Present(tables, req.e, req.id) /\ ~NotNullOk(d)
             THEN /\ Leave(s, ServerError(req, "IntegrityError"))
                  /\ UNCHANGED tables
           ELSE IF ~Present(FlushUpdate(tables, req.e, req.id, existing, d),
                            req.e, req.id)
             THEN /\ Leave(s, ServerError(req, "StaleDataError"))
                  /\ UNCHANGED tables
           ELSE /\ tables' = FlushUpdate(tables, req.e, req.id, existing, d)
                /\ Goto(s, "refresh", req, <<>>)

\* db.delete(existing); db.commit(): a DELETE that matches no row any more
\* only warns.  The object returned keeps the attributes db.get loaded.
CommitDelete(s) ==
    LET req == inflight[s].req IN
    /\ resp = <<>>
    /\ inflight[s].pc = "commit"
    /\ req.op = "DELETE"
    /\ tables' = Remove(tables, req.e, req.id)
    /\ Leave(s, Response(req, 200, "", <<Out(req.e, inflight[s].existing[1])>>))
    /\ UNCHANGED nextId

\* db.refresh(...): SELECT of the row by primary key; it raises when the row
\* is gone.
Refresh(s) ==
    LET req == inflight[s].req IN
    /\ resp = <<>>
    /\ inflight[s].pc = "refresh"
    /\ IF ~Present(tables, req.e, req.id)
         THEN Leave(s, ServerError(req, "InvalidRequestError"))
         ELSE Leave(s, Response(req, IF req.op = "POST" THEN 201 ELSE 200, "",
                                <<Out(req.e, tables[req.e][req.id])>>))
    /\ UNCHANGED <<tables, nextId>>

\* A store fault on the round trip about to be made: the statement raises,
\* nothing of it is committed.  An INSERT that failed may have drawn its id.
Fault(s) ==
    LET req == inflight[s].req IN
    /\ resp = <<>>
    /\ inflight[s].pc \in {"query", "get", "commit", "refresh"}
    /\ Leave(s, ServerError(req, "OperationalError"))
    /\ \/ UNCHANGED nextId
       \/ /\ inflight[s].pc = "commit"
          /\ req.op = "POST"
          /\ nextId' = Advance(nextId, req.e)
    /\ UNCHANGED tables

ConcNext ==
    \/ Deliver
    \/ \E s \in Slots :
        \/ Begin(s)
        \/ Reject(s)
        \/ Query(s)
        \/ Get(s)
        \/ CommitCreate(s)
        \/ CommitUpdate(s)
        \/ CommitDelete(s)
        \/ Refresh(s)
        \/ Fault(s)

ConcSpec == Init /\ [][ConcNext]_vars

(***************************************************************************)
(* Properties of Spec                                                      *)
(***************************************************************************)
\* A step that answers a request; resp'[1] is the answer.
Answered == resp = <<>> /\ resp' # <<>>

\* The JSON type the create schema declares for attribute f.
TypedAsCreate(f, tok) == tok \in (IF f \in IntFields THEN IntTokens ELSE StrTokens)

\* Every recognised attribute the body supplies is of its declared type.
WellTypedPartial(e, body) ==
    \A f \in DOMAIN body \cap Fields(e) : TypedAsCreate(f, body[f])

\* A valid create payload: all attributes supplied, each of its declared type.
WellTypedFull(e, body) ==
    Fields(e) \subseteq DOMAIN body /\ WellTypedPartial(e, body)

\* Every row but row id of table e is the same before and after the step.
OthersUnchanged(e, id) ==
    \A e2 \in Entities :
        \A i \in DOMAIN tables[e2] \cup DOMAIN tables'[e2] :
            (e2 # e \/ i # id) =>
                /\ i \in DOMAIN tables[e2]
                /\ i \in DOMAIN tables'[e2]
                /\ tables'[e2][i] = tables[e2][i]

\* C1: a POST whose body supplies every attribute with its declared type is
\* answered 201 with one entity whose non-id fields are the submitted ones;
\* a GET of an id is answered 200 with the entity that the latest 201 / 200
\* response for that id carried, which is the create's entity for as long as
\* no PUT or DELETE of the id has succeeded.
C1_CreateThenGet ==
    [][Answered =>
        LET r == resp'[1]
            e == r.req.e
        IN  /\ (r.req.op = "POST" /\ WellTypedFull(e, r.req.body)) =>
                  /\ r.status = 201
                  /\ Len(r.rows) = 1
                  /\ \A f \in Fields(e) : r.rows[1][f] = r.req.body[f]
                  /\ known'[e][r.rows[1].id] = r.rows[1]
            /\ (r.req.op = "GET" /\ r.req.id \in DOMAIN known[e]) =>
                  /\ r.status = 200
                  /\ r.rows = <<known[e][r.req.id]>>
    ]_vars

\* A GET answered 200 with the entity a create returned.
C1_Witness ==
    /\ resp # <<>>
    /\ resp[1].req.op = "GET"
    /\ resp[1].status = 200
    /\ resp[1].req.id \in issued[resp[1].req.e]
    /\ resp[1].rows = <<known[resp[1].req.e][resp[1].req.id]>>

\* C2: a GET, a DELETE, or a PUT with a well-typed body, on an id that no
\* response has created or whose DELETE has answered 200, is answered 404
\* with the detail naming the entity type, and changes no table.
C2_AbsentIs404 ==
    [][Answered =>
        LET r == resp'[1]
            e == r.req.e
        IN  (/\ r.req.op \in {"GET", "PUT", "DELETE"}
             /\ r.req.id \notin DOMAIN known[e]
             /\ WellTypedPartial(e, r.req.body)) =>
                  /\ r.status = 404
                  /\ r.detail = (IF e = "Student" THEN "Student not found"
                                                  ELSE "Teacher not found")
                  /\ r.rows = <<>>
                  /\ tables' = tables
                  /\ nextId' = nextId
    ]_vars

\* A PUT on a deleted teacher id answered 404.
C2_Witness ==
    /\ resp # <<>>
    /\ resp[1].req.op = "PUT"
    /\ resp[1].req.e = "Teacher"
    /\ resp[1].req.id \in issued["Teacher"]
    /\ resp[1].req.id \notin DOMAIN known["Teacher"]
    /\ resp[1].req.body # Empty
    /\ resp[1].status = 404

\* C3: a PUT on an existing id never touches another row, the row's id, or an
\* attribute its body leaves out; with a well-typed body it is answered 200
\* and the row holds exactly the submitted values in the attributes supplied;
\* with an empty body it is answered 200 with the entity unchanged.
C3_PartialUpdate ==
    [][Answered =>
        LET r    == resp'[1]
            e    == r.req.e
            id   == r.req.id
            body == r.req.body
        IN  (r.req.op = "PUT" /\ id \in DOMAIN tables[e]) =>
              /\ OthersUnchanged(e, id)
              /\ id \in DOMAIN tables'[e]
              /\ tables'[e][id].id = id
              /\ \A f \in Fields(e) \ DOMAIN body : tables'[e][id][f] = tables[e][id][f]
              /\ WellTypedPartial(e, body) =>
                    /\ r.status = 200
                    /\ r.rows = <<Out(e, tables'[e][id])>>
                    /\ \A f \in Fields(e) \cap DOMAIN body : r.rows[1][f] = body[f]
              /\ body = Empty =>
                    /\ r.status = 200
                    /\ tables' = tables
                    /\ r.rows = <<Out(e, tables[e][id])>>
    ]_vars

\* A PUT of age alone answered 200, the row created with name "A", age 30.
C3_Witness ==
    /\ resp # <<>>
    /\ resp[1].req.op = "PUT"
    /\ resp[1].req.e = "Student"
    /\ DOMAIN resp[1].req.body = {"age"}
    /\ resp[1].status = 200
    /\ resp[1].rows[1].age = "31"
    /\ resp[1].rows[1].name = "\"A\""
    /\ Cardinality(DOMAIN tables["Student"]) = 2

\* C4: a DELETE on an existing id is answered 200 with the entity as stored
\* before it, and removes that row and no other; a DELETE on an id with no
\* row is answered 404; a step that answers nothing changes no table.  So
\* two DELETEs of one id in a row are answered 200, then 404.
C4_DeleteOnce ==
    [][/\ Answered =>
            LET r  == resp'[1]
                e  == r.req.e
                id == r.req.id
            IN  r.req.op = "DELETE" =>
                  IF id \in DOMAIN tables[e]
                    THEN /\ r.status = 200
                         /\ r.rows = <<Out(e, tables[e][id])>>
                         /\ id \notin DOMAIN tables'[e]
                         /\ OthersUnchanged(e, id)
                    ELSE /\ r.status = 404
                         /\ tables' = tables
       /\ ~Answered => tables' = tables
    ]_vars

\* A DELETE answered 200, its row gone and the other row of the table kept.
C4_Witness ==
    /\ resp # <<>>
    /\ resp[1].req.op = "DELETE"
    /\ resp[1].status = 200
    /\ resp[1].req.id \notin DOMAIN tables[resp[1].req.e]
    /\ Cardinality(DOMAIN tables[resp[1].req.e]) = 1

\* C5: the collection route is answered 200 with one entry for each id that a
\* 201 response created and no 200 DELETE response removed, and no other
\* entry, each entry the entity of the latest 201 / 200 response for its id.
C5_ListIsLiveSet ==
    (resp # <<>> /\ resp[1].req.op = "LIST") =>
        LET r == resp[1]
            e == r.req.e
        IN  /\ r.status = 200
            /\ Len(r.rows) = Cardinality(DOMAIN known[e])
            /\ {r.rows[i] : i \in 1..Len(r.rows)} =
                   {known[e][id] : id \in DOMAIN known[e]}

\* A list of one entity after two creates, an update and a delete.
C5_Witness ==
    /\ resp # <<>>
    /\ resp[1].req.op = "LIST"
    /\ Len(resp[1].rows) = 1
    /\ Cardinality(issued[resp[1].req.e]) = 2
    /\ \E f \in Fields(resp[1].req.e) : resp[1].rows[1][f] = Body2(resp[1].req.e)[f]

\* C6: no step changes the id of a row, a PUT answered 200 carries the id of
\* its path whatever its body holds, and a 201 response carries an id that no
\* earlier 201 response for the entity type carried.
C6_IdStable ==
    [][/\ \A e \in Entities :
            /\ \A id \in DOMAIN tables'[e] : tables'[e][id].id = id
            /\ \A id \in DOMAIN tables[e] \cap DOMAIN tables'[e] :
                   tables'[e][id].id = tables[e][id].id
       /\ Answered =>
            LET r == resp'[1] IN
            /\ (r.req.op = "POST" /\ r.status = 201) =>
                   r.rows[1].id \notin issued[r.req.e]
            /\ (r.req.op = "PUT" /\ r.status = 200) =>
                   r.rows[1].id = r.req.id
    ]_vars

\* A create answered 201 with id 2 after the row with id 1 was deleted.
C6_Witness ==
    /\ resp # <<>>
    /\ resp[1].req.op = "POST"
    /\ resp[1].status = 201
    /\ resp[1].rows[1].id = 2
    /\ 1 \in issued[resp[1].req.e]
    /\ DOMAIN tables[resp[1].req.e] = {2}

\* C7: a POST whose body misses an attribute or gives one a value not of its
\* declared type, and a PUT whose body gives a supplied attribute such a
\* value (null included), is answered 422 and changes no table.
C7_IllTypedIs422 ==
    [][Answered =>
        LET r == resp'[1]
            e == r.req.e
        IN  (\/ r.req.op = "POST" /\ ~WellTypedFull(e, r.req.body)
             \/ r.req.op = "PUT" /\ ~WellTypedPartial(e, r.req.body)) =>
                  /\ r.status = 422
                  /\ tables' = tables
    ]_vars

\* C8: every stored row has a non-empty name.
C8_NameNonEmpty ==
    \A e \in Entities : \A id \in DOMAIN tables[e] : tables[e][id].name # ""

\* C8, amended: a POST that omits name or gives it as null, and a PUT that
\* gives name as null, is never answered 200 / 201 and changes no table, so
\* every stored name is a string; the empty string is accepted and stored.
C8_NameNotNull ==
    [][Answered =>
        LET r == resp'[1]
            b == r.req.body
        IN  (/\ r.req.op \in {"POST", "PUT"}
             /\ \/ "name" \in DOMAIN b /\ b["name"] = JNull
                \/ r.req.op = "POST" /\ "name" \notin DOMAIN b) =>
                  /\ r.status \notin {200, 201}
                  /\ tables' = tables
    ]_vars

\* A PUT giving name as null on an existing row, refused by the store.
C8_Witness ==
    /\ resp # <<>>
    /\ resp[1].req.op = "PUT"
    /\ "name" \in DOMAIN resp[1].req.body
    /\ resp[1].req.body["name"] = JNull
    /\ resp[1].req.id \in DOMAIN tables[resp[1].req.e]
    /\ resp[1].status = 500

(***************************************************************************)
(* Properties of ConcSpec                                                  *)
(***************************************************************************)
\* C9: a slot holds one open session while its request runs and none once it
\* has returned or raised, whichever way the handler left; the tables change
\* only in the commit of a handler that does not raise there, and a step in
\* which a handler raises leaves every table as it was.
C9_SessionScoped ==
    [][/\ \A s \in Slots :
            open'[s] = (IF inflight'[s].pc = "idle" THEN 0 ELSE 1)
       /\ tables' # tables =>
            \E s \in Slots :
                /\ inflight[s].pc = "commit"
                /\ inflight'[s].pc # "commit"
                /\ resp' # <<>> => resp'[1].exc = ""
       /\ (resp = <<>> /\ resp' # <<>> /\ resp'[1].exc # "") => tables' = tables
    ]_vars

\* A PUT of age 31 lost to a store fault: answered 500, the row still at
\* age 30, no request running and no session open.
C9_Witness ==
    /\ resp # <<>>
    /\ resp[1].req.op = "PUT"
    /\ resp[1].exc = "OperationalError"
    /\ "age" \in DOMAIN resp[1].req.body
    /\ 1 \in DOMAIN tables["Student"]
    /\ tables["Student"][1].age = 30
    /\ \A s \in Slots : inflight[s].pc = "idle" /\ open[s] = 0

\* C10: an id that has been assigned and has no row has none after any step;
\* a PUT that takes its commit or refresh step when its row is gone changes
\* no table and is answered 500, at that step or at the refresh after it; a
\* PUT answered 200 carries the row as the table holds it at that step.
C10_NoResurrection ==
    [][/\ \A e \in Entities : \A id \in 1..(nextId[e] - 1) :
            id \notin DOMAIN tables[e] => id \notin DOMAIN tables'[e]
       /\ \A s \in Slots :
            (/\ inflight[s].pc \in {"commit", "refresh"}
             /\ inflight[s].req.op = "PUT"
             /\ inflight'[s].pc # inflight[s].pc
             /\ ~Present(tables, inflight[s].req.e, inflight[s].req.id)) =>
                /\ tables' = tables
                /\ \/ inflight[s].pc = "commit" /\ inflight'[s].pc = "refresh"
                   \/ /\ inflight'[s].pc = "idle"
                      /\ resp' # <<>>
                      /\ resp'[1].req = inflight[s].req
                      /\ resp'[1].status = 500
       /\ (resp = <<>> /\ resp' # <<>> /\ resp'[1].req.op = "PUT"
           /\ resp'[1].status = 200) =>
                /\ Present(tables', resp'[1].req.e, resp'[1].req.id)
                /\ resp'[1].rows =
                       <<Out(resp'[1].req.e, tables'[resp'[1].req.e][resp'[1].req.id])>>
    ]_vars

\* A PUT that loaded its row, then found it deleted at its commit: answered
\* 500 by StaleDataError, the row still gone.
C10_Witness ==
    /\ resp # <<>>
    /\ resp[1].req.op = "PUT"
    /\ resp[1].exc = "StaleDataError"
    /\ resp[1].status = 500
    /\ resp[1].req.id \notin DOMAIN tables["Student"]

====
